---- MODULE Spec2Model ----
(***************************************************************************)
(* Translation tree synchronisation of wagtailtrans.                       *)
(*                                                                         *)
(* The state is the page tree of one site (pages below site.root_page),    *)
(* the two fields TranslatablePage carries (canonical_page, language), the *)
(* TranslatablePageItem table (the translation registry), the Language     *)
(* table and the WAGTAILTRANS_SYNC_TREE setting.                           *)
(*                                                                         *)
(* Spec runs the tree operations on a fresh site, SpecNoSync the same with *)
(* SYNC_TREE off, SpecMove the tree operations on a site whose translations *)
(* carry the page fields, SpecSite the language forms, get_user_language    *)
(* and the site root page.                                                  *)
(*                                                                         *)
(* Reading of the source that the model follows:                           *)
(*  - page classes list TranslatablePageMixin before TranslatablePage, so  *)
(*    the attribute read `page.language` is the mixin's property (the      *)
(*    language of the page's TranslatablePageItem, None without one) while *)
(*    ORM filters `language=`/`canonical_page=` on TranslatablePage read   *)
(*    the model fields;                                                    *)
(*  - the host's copy() copies every model field of the source and then    *)
(*    applies update_attrs, so a copy carries the source's field values;   *)
(*  - the host's move is called with pos = 'last-child' (target becomes    *)
(*    the parent), querysets of pages are ordered by tree path;            *)
(*  - the tree specifications run with LANGUAGES_PER_SITE off (global       *)
(*    default language) unless their Init says otherwise;                   *)
(*  - TranslatablePageItem.page is on_delete=PROTECT, as models.py declares *)
(*    it (migration 0012 records CASCADE; deletion rules are applied from   *)
(*    the model class);                                                     *)
(*  - a direct create_translation call passes no parent or the site root.   *)
(***************************************************************************)
EXTENDS Integers, Sequences, FiniteSets, TLC

\* ---- bounds ----
MaxNodes == 4
MaxOps == 4
MaxSiteOps == 3
MaxMoveOps == 2

\* ---- program constants ----
ROOT == 0
None == -1
NoLang == "None"
LangCodes == <<"en", "nl", "de">>
Codes == {LangCodes[i] : i \in DOMAIN LangCodes}

VARIABLES
    SYNC_TREE,  \* settings.WAGTAILTRANS_SYNC_TREE
    lang,       \* Language table: code -> [ex, is_default, live]
    parent,     \* page -> parent page (ROOT for children of the site root)
    flang,      \* TranslatablePage.language (model field)
    fcanon,     \* TranslatablePage.canonical_page (model field)
    live,       \* Page.live
    ordr,       \* pages in the order they entered their parent (sibling order)
    items,      \* TranslatablePageItem rows [page, canonical_page, language]
    nextId,     \* next primary key
    err,        \* exception raised by the last operation ("" when none)
    last,       \* the last operation and its arguments
    ops,        \* number of operations performed
    LANGUAGES_PER_SITE,  \* settings.WAGTAILTRANS_LANGUAGES_PER_SITE
    site_languages,      \* SiteLanguages row of the site [default_language, other_languages]
    moved,      \* the pages the host moved during the last operation, in order
    ret,        \* what the last request or form submission returned
    again       \* the last operation repeated the one before it, which had succeeded

vars == <<SYNC_TREE, lang, parent, flang, fcanon, live, ordr, items, nextId, err, last, ops,
          LANGUAGES_PER_SITE, site_languages, moved, ret, again>>

\* nothing returned: no page redirected to, no Language resolved
NoReturn == [page |-> None, language |-> NoLang]

\* The database as one value, threaded through the handlers.
DB ==
    [lang |-> lang, parent |-> parent, flang |-> flang, fcanon |-> fcanon,
     live |-> live, ordr |-> ordr, items |-> items, nextId |-> nextId, err |-> "",
     moved |-> <<>>, ret |-> NoReturn]

Raise(db, e) == [db EXCEPT !.err = e]

Pages(db) == DOMAIN db.parent

\* ---- host tree primitives ----
get_children(db, p) == SelectSeq(db.ordr, LAMBDA n : db.parent[n] = p)

RECURSIVE Preorder(_, _), PreorderList(_, _)
Preorder(db, n) == <<n>> \o PreorderList(db, get_children(db, n))
PreorderList(db, s) ==
    IF s = <<>> THEN <<>> ELSE Preorder(db, Head(s)) \o PreorderList(db, Tail(s))

get_descendants(db, n, inclusive) ==
    IF inclusive THEN Preorder(db, n) ELSE Tail(Preorder(db, n))

SeqSet(s) == {s[i] : i \in DOMAIN s}
Subtree(db, n) == SeqSet(Preorder(db, n))

\* TranslatablePage.objects: every page, ordered by path
PathOrder(db) == PreorderList(db, get_children(db, ROOT))
OrderedFilter(db, S) == SelectSeq(PathOrder(db), LAMBDA n : n \in S)
First(s) == IF s = <<>> THEN None ELSE Head(s)

add_child(db, p, fl, fc, lv) ==
    [db EXCEPT !.parent = (db.nextId :> p) @@ @,
               !.flang = (db.nextId :> fl) @@ @,
               !.fcanon = (db.nextId :> fc) @@ @,
               !.live = (db.nextId :> lv) @@ @,
               !.ordr = Append(@, db.nextId),
               !.nextId = @ + 1]

\* a host move that refuses a page that is already a child of the target
super_move_strict(db, self, target) ==
    IF target \in Subtree(db, self) \/ db.parent[self] = target
    THEN Raise(db, "InvalidMoveToDescendant")
    ELSE [db EXCEPT !.parent[self] = target,
                    !.ordr = Append(SelectSeq(@, LAMBDA n : n /= self), self),
                    !.moved = Append(@, self)]

super_move(db, self, target) ==
    IF target \in Subtree(db, self)
    THEN Raise(db, "InvalidMoveToDescendant")
    ELSE [db EXCEPT !.parent[self] = target,
                    !.ordr = Append(SelectSeq(@, LAMBDA n : n /= self), self),
                    !.moved = Append(@, self)]

\* ---- Language table ----
\* Language.objects: ordered by position, the rank of the code in LangCodes
\* Language.objects.filter(is_default=False)
NonDefaultLanguages(db) ==
    SelectSeq(LangCodes, LAMBDA c : db.lang[c].ex /\ ~db.lang[c].is_default)

_language_default(db) ==
    IF \E c \in Codes : db.lang[c].ex /\ db.lang[c].is_default
    THEN CHOOSE c \in Codes : db.lang[c].ex /\ db.lang[c].is_default
    ELSE NoLang

\* ---- translation registry ----
translatable_page_item(db, self) == {it \in db.items : it.page = self}

language(db, self) ==
    IF translatable_page_item(db, self) = {} THEN NoLang
    ELSE (CHOOSE it \in translatable_page_item(db, self) : TRUE).language

has_pages_in_site(db) == \E it \in db.items : it.page \in Pages(db)

\* has_translation that never finds a row
has_translation_never(db, self, language_) == FALSE

\* has_translation that filters on the page column instead of canonical_page
has_translation_by_page(db, self, language_) ==
    \E it \in db.items : it.page = self /\ it.language = language_

has_translation(db, self, language_) ==
    \E it \in db.items : it.canonical_page = self /\ it.language = language_

\* What get_translation_parent hands back: a page, a registry row or None.
PageRef(p) == [kind |-> "page", id |-> p]
ItemRef(it) == [kind |-> "item", id |-> it.page]
NoneRef == [kind |-> "none", id |-> None]

get_translation_parent(db, self, language_) ==
    IF ~has_pages_in_site(db) THEN PageRef(ROOT)
    ELSE LET found == {it \in db.items : /\ it.page \in Pages(db)
                                         /\ it.canonical_page = db.parent[self]
                                         /\ it.language = language_}
         IN IF found = {} THEN NoneRef ELSE ItemRef(CHOOSE it \in found : TRUE)

RegisterItem(db, page, canonical, language_) ==
    [db EXCEPT !.items = @ \cup {[page |-> page, canonical_page |-> canonical,
                                  language |-> language_]}]

RECURSIVE create_translation(_, _, _, _, _), synchronize_trees(_, _, _), SyncLoop(_, _, _)

\* TranslatablePageMixin.create_translation; parent_ = None when not supplied
create_translation(db, self, language_, copy_fields, parent_) ==
    IF has_translation(db, self, language_) THEN Raise(db, "Exception")
    ELSE
    LET p == IF parent_ = None THEN get_translation_parent(db, self, language_)
             ELSE PageRef(parent_)
    IN
    IF language(db, self) = NoLang THEN Raise(db, "AttributeError")    \* self.language.code
    ELSE
    LET to == IF p /= PageRef(db.parent[self]) THEN p ELSE NoneRef
        made ==
          IF copy_fields
          THEN \* self.copy(update_attrs, to): a falsy `to` adds a sibling of self
               IF to.kind = "item" THEN Raise(db, "AttributeError")
               ELSE add_child(db, IF to.kind = "page" THEN to.id ELSE db.parent[self],
                              db.flang[self], db.fcanon[self], FALSE)
          ELSE \* model_class(**update_attrs); parent.add_child(instance=new_page)
               IF p.kind /= "page" THEN Raise(db, "AttributeError")
               ELSE add_child(db, p.id, _language_default(db), None, FALSE)
        \* post_save(created=True) of the new page
        saved == IF made.err /= "" THEN made
                 ELSE synchronize_trees(made, db.nextId, TRUE)
    IN IF saved.err /= "" THEN saved
       ELSE RegisterItem(saved, db.nextId, self, language_)

\* synchronize_trees that does not read the SYNC_TREE setting
synchronize_trees_always(db, instance, created) ==
    IF \/ ~created
       \/ language(db, instance) = NoLang
       \/ ~db.lang[language(db, instance)].is_default
       \/ instance \notin Pages(db)
    THEN db
    ELSE SyncLoop(db, instance, NonDefaultLanguages(db))

\* signals.synchronize_trees
synchronize_trees(db, instance, created) ==
    IF \/ ~created
       \/ ~SYNC_TREE
       \/ language(db, instance) = NoLang
       \/ ~db.lang[language(db, instance)].is_default
       \/ instance \notin Pages(db)
    THEN db
    ELSE SyncLoop(db, instance, NonDefaultLanguages(db))

SyncLoop(db, instance, ls) ==
    IF ls = <<>> \/ db.err /= "" THEN db
    ELSE SyncLoop(create_translation(db, instance, Head(ls), TRUE, None), instance, Tail(ls))

RECURSIVE BackfillLoop(_, _, _)
BackfillLoop(db, ps, instance) ==
    IF ps = <<>> \/ db.err /= "" THEN db
    ELSE BackfillLoop(create_translation(db, Head(ps), instance, TRUE, None), Tail(ps), instance)

\* signals.create_new_language_tree (one site)
create_new_language_tree(db, instance, created) ==
    IF ~created \/ ~SYNC_TREE THEN db
    ELSE LET site_pages == SeqSet(get_children(db, ROOT))
             canonical_home_page ==
                 First(OrderedFilter(db, {n \in site_pages :
                                             db.flang[n] = _language_default(db)}))
         IN IF canonical_home_page = None THEN Raise(db, "AttributeError")
            ELSE BackfillLoop(db, get_descendants(db, canonical_home_page, TRUE), instance)

\* TranslatablePage.get_translations
get_translations(db, self, only_live, include_self) ==
    LET canonical_page_id == IF db.fcanon[self] /= None THEN db.fcanon[self] ELSE self
        all == {n \in Pages(db) : db.fcanon[n] = canonical_page_id \/ n = canonical_page_id}
        excl == IF include_self THEN all ELSE all \ {self}
        flt == IF only_live
               THEN {n \in excl : db.live[n] /\ db.lang[db.flang[n]].live}
               ELSE excl
    IN OrderedFilter(db, flt)

RECURSIVE move(_, _, _, _), MoveLoop(_, _, _)

\* TranslatablePageMixin.move_translated_pages
move_translated_pages(db, self, canonical_target) ==
    LET translations == get_translations(db, self, FALSE, FALSE)
        ct == IF canonical_target /= ROOT /\ db.fcanon[canonical_target] /= None
              THEN db.fcanon[canonical_target] ELSE canonical_target
    IN MoveLoop(db, translations, ct)

MoveLoop(db, ts, ct) ==
    IF ts = <<>> \/ db.err /= "" THEN db
    ELSE LET page == Head(ts)
             target == {n \in Pages(db) : /\ db.flang[n] = language(db, page)
                                          /\ (db.fcanon[n] = ct \/ n = ct)}
         IN IF target = {} THEN Raise(db, "DoesNotExist")
            ELSE IF Cardinality(target) > 1 THEN Raise(db, "MultipleObjectsReturned")
            ELSE MoveLoop(move(db, page, CHOOSE n \in target : TRUE, TRUE), Tail(ts), ct)

\* move that propagates whatever suppress_sync says
move_unsuppressed(db, self, target, suppress_sync) ==
    LET done == super_move(db, self, target)
    IN IF done.err /= "" THEN done
       ELSE IF ~LANGUAGES_PER_SITE /\ language(done, self) = NoLang
       THEN Raise(done, "AttributeError")
       ELSE LET is_default ==
                    IF LANGUAGES_PER_SITE
                    THEN site_languages.default_language = language(done, self)
                    ELSE done.lang[language(done, self)].is_default
            IN IF SYNC_TREE /\ is_default
               THEN move_translated_pages(done, self, target)
               ELSE done

\* TranslatablePageMixin.move
move(db, self, target, suppress_sync) ==
    LET done == super_move(db, self, target)
    IN IF done.err /= "" THEN done
       ELSE IF ~LANGUAGES_PER_SITE /\ language(done, self) = NoLang
       THEN Raise(done, "AttributeError")
       ELSE LET is_default ==
                    IF LANGUAGES_PER_SITE
                    THEN site_languages.default_language = language(done, self)
                    ELSE done.lang[language(done, self)].is_default
            IN IF ~suppress_sync /\ SYNC_TREE /\ is_default
               THEN move_translated_pages(done, self, target)
               ELSE done

\* signals.synchronize_deletions: the pages the pre_delete handler deletes
synchronize_deletions(db, instance) ==
    IF SYNC_TREE /\ instance \in Pages(db)
    THEN {n \in Pages(db) : db.fcanon[n] = instance}
    ELSE {}

\* every page a delete of the pages D takes along: their subtrees and, through
\* the pre_delete handler of each, the pages that handler deletes
RECURSIVE DeleteSet(_, _)
DeleteSet(db, D) ==
    LET sub == UNION {Subtree(db, n) : n \in D}
        more == sub \cup UNION {synchronize_deletions(db, n) : n \in sub}
    IN IF more = D THEN D ELSE DeleteSet(db, more)

Restrict(f, S) == [x \in S |-> f[x]]

\* Page.delete with the on_delete rules of the foreign keys
delete(db, self) ==
    LET D == DeleteSet(db, {self})
        keep == Pages(db) \ D
    IN IF \E it \in db.items : it.page \in D          \* page: on_delete=PROTECT
       THEN Raise(db, "ProtectedError")
       ELSE [db EXCEPT
               !.parent = Restrict(@, keep),
               !.flang = Restrict(@, keep),
               !.live = Restrict(@, keep),
               \* TranslatablePage.canonical_page: on_delete=SET_NULL
               !.fcanon = [n \in keep |-> IF db.fcanon[n] \in D THEN None ELSE db.fcanon[n]],
               !.ordr = SelectSeq(@, LAMBDA n : n \in keep),
               \* TranslatablePageItem.canonical_page: on_delete=CASCADE
               !.items = {it \in @ : it.canonical_page \notin D}]

\* ---- languages of a site and of a request ----
\* LanguageManager.live
live_languages(db) == {c \in Codes : db.lang[c].ex /\ db.lang[c].live}

\* LanguageManager.default_for_site
default_for_site(db) ==
    IF LANGUAGES_PER_SITE THEN site_languages.default_language ELSE _language_default(db)

\* get_user_language without the live() filter
get_user_language_any(db, LANGUAGE_CODE) ==
    IF LANGUAGE_CODE /= NoLang /\ db.lang[LANGUAGE_CODE].ex
    THEN LANGUAGE_CODE ELSE default_for_site(db)

\* get_user_language; a request without the attribute LANGUAGE_CODE carries NoLang
get_user_language(db, LANGUAGE_CODE) ==
    LET language_ == IF LANGUAGE_CODE \in live_languages(db) THEN LANGUAGE_CODE ELSE NoLang
    IN IF LANGUAGE_CODE /= NoLang /\ language_ /= NoLang
       THEN language_
       ELSE default_for_site(db)

\* TranslatableSiteRootPage.serve: the page redirected to, or the exception
serve(db, LANGUAGE_CODE) ==
    LET language_ == get_user_language(db, LANGUAGE_CODE)
        root_pages == {n \in SeqSet(get_children(db, ROOT)) : db.live[n]}
        candidates == {it \in db.items : it.page \in root_pages /\ it.language = language_}
        \* candidates.get() on TranslatablePageItem
        raised == IF candidates = {} THEN "TranslatablePageItem.DoesNotExist"
                  ELSE IF Cardinality(candidates) > 1 THEN "MultipleObjectsReturned"
                  ELSE ""
    IN IF raised = "" THEN [db EXCEPT !.ret.page = (CHOOSE it \in candidates : TRUE).page]
       \* except TranslatablePage.DoesNotExist ("DoesNotExist", as in MoveLoop):
       \* raise Http404
       ELSE IF raised = "DoesNotExist" THEN Raise(db, "Http404")
       ELSE Raise(db, raised)

\* ---- the language forms of the admin ----
\* the page that becomes canonical for the group of C when new becomes default
NewCanonical(db, C, old, new) ==
    LET ts == {it \in db.items : it.canonical_page = C /\ it.language = new}
    IN IF language(db, C) = old /\ ts /= {} THEN (CHOOSE it \in ts : TRUE).page ELSE C

\* wagtailtrans.utils.language_switch.change_default_language: the groups whose
\* canonical page is in the old default language take their translation in the
\* new one as canonical page; without a site the old default loses is_default
change_default_language(db, language_, for_site) ==
    LET old == IF for_site THEN site_languages.default_language ELSE _language_default(db)
        Rehome(it) ==
            IF it.canonical_page = None
            THEN IF NewCanonical(db, it.page, old, language_) = it.page THEN it
                 ELSE [it EXCEPT !.canonical_page = NewCanonical(db, it.page, old, language_)]
            ELSE IF NewCanonical(db, it.canonical_page, old, language_) = it.page
                 THEN [it EXCEPT !.canonical_page = None]
                 ELSE [it EXCEPT !.canonical_page =
                                    NewCanonical(db, it.canonical_page, old, language_)]
    IN [db EXCEPT !.items = {Rehome(it) : it \in db.items},
                  !.lang = [c \in Codes |->
                               IF for_site \/ c = language_ THEN db.lang[c]
                               ELSE [db.lang[c] EXCEPT !.is_default = FALSE]]]

\* clean_is_default that accepts every value
clean_is_default_any(initial, is_default) == ""

\* WagtailAdminLanguageForm.clean_is_default: the error raised ("" when none)
clean_is_default(initial, is_default) ==
    IF initial.is_default /\ ~is_default THEN "ValidationError" ELSE ""

\* WagtailAdminLanguageForm.save and the post_save handler of Language
LanguageForm_save(db, c, is_default, lv) ==
    LET initial == db.lang[c]
        switched == IF initial.is_default /= is_default /\ is_default /\ ~LANGUAGES_PER_SITE
                    THEN change_default_language(db, c, FALSE)
                    ELSE db
        saved == [switched EXCEPT !.lang[c] = [ex |-> TRUE, is_default |-> is_default,
                                               live |-> lv]]
    IN create_new_language_tree(saved, c, ~initial.ex)

\* clean_other_languages that accepts every value
clean_other_languages_any(cleaned_default, default_language, other_languages) == ""

\* SiteLanguagesForm.clean_other_languages; cleaned_default: the field
\* default_language, cleaned before it, is in cleaned_data
clean_other_languages(cleaned_default, default_language, other_languages) ==
    IF cleaned_default /\ default_language \in other_languages
    THEN "ValidationError" ELSE ""

\* SiteLanguagesForm.save
SiteLanguagesForm_save(db, default_language) ==
    IF default_language /= site_languages.default_language
    THEN change_default_language(db, default_language, TRUE)
    ELSE db

\* ---- the state machine ----
NoLanguage == [ex |-> FALSE, is_default |-> FALSE, live |-> FALSE]
Op(name, node, tgt, lng) ==
    [op |-> name, node |-> node, tgt |-> tgt, lng |-> lng, checked |-> {}]
\* a form submission for language lng with the set of boxes that were checked
FormOp(name, lng, checked) == [Op(name, None, None, lng) EXCEPT !.checked = checked]
Empty == [n \in {} |-> None]
\* SiteLanguages.for_site before anything was saved: no default, no others
NoSiteLanguages == [default_language |-> NoLang, other_languages |-> {}]

Init ==
    /\ SYNC_TREE \in BOOLEAN
    /\ lang = [c \in Codes |-> IF c = LangCodes[1]
                               THEN [ex |-> TRUE, is_default |-> TRUE, live |-> TRUE]
                               ELSE NoLanguage]
    /\ parent = Empty /\ flang = Empty /\ fcanon = Empty /\ live = Empty
    /\ ordr = <<>>
    /\ items = {}
    /\ nextId = 1
    /\ err = ""
    /\ last = Op("init", None, None, NoLang)
    /\ ops = 0
    /\ LANGUAGES_PER_SITE = FALSE
    /\ site_languages = NoSiteLanguages
    /\ moved = <<>>
    /\ ret = NoReturn
    /\ again = FALSE

\* the database after an operation; page ids stay within the pool and every
\* action first checks that the run has operations left
CommitWith(r, l, sl) ==
    /\ r.nextId <= MaxNodes + 1
    /\ lang' = r.lang /\ parent' = r.parent /\ flang' = r.flang /\ fcanon' = r.fcanon
    /\ live' = r.live /\ ordr' = r.ordr /\ items' = r.items /\ nextId' = r.nextId
    /\ err' = r.err
    /\ last' = l
    /\ ops' = ops + 1
    /\ moved' = r.moved
    /\ ret' = r.ret
    /\ again' = (l = last /\ err = "")
    /\ site_languages' = sl
    /\ UNCHANGED <<SYNC_TREE, LANGUAGES_PER_SITE>>

Commit(r, l) == CommitWith(r, l, site_languages)

Existing == {c \in Codes : lang[c].ex}

\* an administrator adds a Language; post_save fires create_new_language_tree
CreateLanguage(c, lv) ==
    /\ ops < MaxOps
    /\ ~lang[c].ex
    /\ Commit(create_new_language_tree(
                [DB EXCEPT !.lang[c] = [ex |-> TRUE, is_default |-> FALSE, live |-> lv]],
                c, TRUE),
              Op("create_language", None, None, c))

\* an editor adds a page in language l below p; with reg the page is entered in
\* the registry as a canonical page before its creation is announced, without
\* reg it only carries the default of the language field
CreatePage(p, l, reg) ==
    /\ ops < MaxOps
    /\ p \in Pages(DB) \cup {ROOT}
    /\ l \in Existing
    /\ (reg \/ l = _language_default(DB))
    /\ LET made == add_child(DB, p, l, None, TRUE)
           regd == IF reg THEN RegisterItem(made, nextId, None, l) ELSE made
       IN Commit(synchronize_trees(regd, nextId, TRUE),
                 Op(IF reg THEN "create_page" ELSE "create_unregistered", nextId, p, l))

CreateTranslation(s, l, cf, par) ==
    /\ ops < MaxOps
    /\ s \in Pages(DB)
    /\ l \in Existing
    /\ par \in {ROOT, None}
    /\ Commit(create_translation(DB, s, l, cf, par),
              Op("create_translation", s, par, l))

Move(s, t, suppress_sync) ==
    /\ ops < MaxOps
    /\ s \in Pages(DB)
    /\ t \in Pages(DB) \cup {ROOT}
    /\ Commit(move(DB, s, t, suppress_sync),
              Op(IF suppress_sync THEN "move_suppressed" ELSE "move", s, t, NoLang))

Delete(s) ==
    /\ ops < MaxOps
    /\ s \in Pages(DB)
    /\ Commit(delete(DB, s), Op("delete", s, None, NoLang))

\* the settings panel of the page editor saves both fields (created = False)
EditFields(s, l, c) ==
    /\ ops < MaxOps
    /\ s \in Pages(DB)
    /\ l \in Existing
    /\ c \in (Pages(DB) \ {s}) \cup {None}
    /\ Commit(synchronize_trees([DB EXCEPT !.flang[s] = l, !.fcanon[s] = c], s, FALSE),
              Op("edit_fields", s, c, l))

Ids == 1..MaxNodes

Next ==
    \/ \E c \in Codes, lv \in BOOLEAN : CreateLanguage(c, lv)
    \/ \E p \in Ids \cup {ROOT}, l \in Codes, reg \in BOOLEAN : CreatePage(p, l, reg)
    \/ \E s \in Ids, l \in Codes, cf \in BOOLEAN, par \in {ROOT, None} :
          CreateTranslation(s, l, cf, par)
    \/ \E s \in Ids, t \in Ids \cup {ROOT}, sup \in BOOLEAN : Move(s, t, sup)
    \/ \E s \in Ids : Delete(s)
    \/ \E s \in Ids, l \in Codes, c \in Ids \cup {None} : EditFields(s, l, c)

Spec == Init /\ [][Next]_vars

\* the same operations on a site that runs with SYNC_TREE off
InitNoSync == Init /\ ~SYNC_TREE
SpecNoSync == InitNoSync /\ [][Next]_vars

\* ---- moves on a site whose translations carry the page fields ----
\* /home (1) and /team (3) in en with their nl translations /home-nl (2) and
\* /team-nl (4), registered and with language and canonical_page filled in
SeedParent == (1 :> ROOT) @@ (2 :> ROOT) @@ (3 :> ROOT) @@ (4 :> ROOT)
SeedLang == (1 :> "en") @@ (2 :> "nl") @@ (3 :> "en") @@ (4 :> "nl")
SeedCanon == (1 :> None) @@ (2 :> 1) @@ (3 :> None) @@ (4 :> 3)
SeedLive == (1 :> TRUE) @@ (2 :> FALSE) @@ (3 :> TRUE) @@ (4 :> FALSE)

\* the site holds /home and its translation, or /team and its translation too
SeedSizes == {2, 4}

InitMove ==
    /\ SYNC_TREE \in BOOLEAN
    /\ LANGUAGES_PER_SITE \in BOOLEAN
    /\ lang = [c \in Codes |-> IF c = "en"
                               THEN [ex |-> TRUE, is_default |-> TRUE, live |-> TRUE]
                               ELSE IF c = "nl"
                               THEN [ex |-> TRUE, is_default |-> FALSE, live |-> TRUE]
                               ELSE NoLanguage]
    /\ \E k \in SeedSizes :
          /\ parent = Restrict(SeedParent, 1..k) /\ flang = Restrict(SeedLang, 1..k)
          /\ fcanon = Restrict(SeedCanon, 1..k) /\ live = Restrict(SeedLive, 1..k)
          /\ ordr = [i \in 1..k |-> i]
          /\ items = {[page |-> n, canonical_page |-> SeedCanon[n],
                       language |-> SeedLang[n]] : n \in 1..k}
          /\ nextId = k + 1
    /\ err = ""
    /\ last = Op("init", None, None, NoLang)
    /\ ops = 0
    /\ site_languages = IF LANGUAGES_PER_SITE
                        THEN [default_language |-> "en", other_languages |-> {"nl"}]
                        ELSE NoSiteLanguages
    /\ moved = <<>>
    /\ ret = NoReturn
    /\ again = FALSE

TreeCreate(p, l) ==
    /\ ops < MaxMoveOps
    /\ CreatePage(p, l, TRUE)

TreeMove(s, t, suppress_sync) ==
    /\ ops < MaxMoveOps
    /\ Move(s, t, suppress_sync)

TreeEdit(s, l, c) ==
    /\ ops < MaxMoveOps
    /\ EditFields(s, l, c)

TreeDelete(s) ==
    /\ ops < MaxMoveOps
    /\ Delete(s)

NextMove ==
    \/ \E p \in Ids \cup {ROOT}, l \in Codes : TreeCreate(p, l)
    \/ \E s \in Ids, t \in Ids \cup {ROOT}, sup \in BOOLEAN : TreeMove(s, t, sup)
    \/ \E s \in Ids, l \in Codes, c \in Ids \cup {None} : TreeEdit(s, l, c)
    \/ \E s \in Ids : TreeDelete(s)

SpecMove == InitMove /\ [][NextMove]_vars

\* ---- the site: language forms, language resolution, the site root page ----
InitSite ==
    /\ SYNC_TREE \in BOOLEAN
    /\ LANGUAGES_PER_SITE \in BOOLEAN
    /\ lang = [c \in Codes |-> IF c = LangCodes[1]
                               THEN [ex |-> TRUE, is_default |-> TRUE, live |-> TRUE]
                               ELSE NoLanguage]
    /\ parent = Empty /\ flang = Empty /\ fcanon = Empty /\ live = Empty
    /\ ordr = <<>>
    /\ items = {}
    /\ nextId = 1
    /\ err = ""
    /\ last = Op("init", None, None, NoLang)
    /\ ops = 0
    /\ site_languages = NoSiteLanguages
    /\ moved = <<>>
    /\ ret = NoReturn
    /\ again = FALSE

\* an editor adds a live page in language l below the site root
SiteCreatePage(l) ==
    /\ ops < MaxSiteOps
    /\ CreatePage(ROOT, l, TRUE)

Checked(is_default, lv) ==
    (IF is_default THEN {"is_default"} ELSE {}) \cup (IF lv THEN {"live"} ELSE {})

\* the Language form of the admin is submitted for code c (new or existing)
SaveLanguage(c, is_default, lv) ==
    /\ ops < MaxSiteOps
    /\ IF clean_is_default(lang[c], is_default) /= ""
       THEN Commit(Raise(DB, clean_is_default(lang[c], is_default)),
                   FormOp("save_language", c, Checked(is_default, lv)))
       ELSE Commit(LanguageForm_save(DB, c, is_default, lv),
                   FormOp("save_language", c, Checked(is_default, lv)))

\* the SiteLanguages form is submitted; default_language is a required field
SaveSiteLanguages(d, o) ==
    /\ ops < MaxSiteOps
    /\ LANGUAGES_PER_SITE
    /\ d \in Existing \cup {NoLang}
    /\ o \subseteq Existing
    /\ IF d = NoLang \/ clean_other_languages(d /= NoLang, d, o) /= ""
       THEN Commit(Raise(DB, "ValidationError"), FormOp("save_site_languages", d, o))
       ELSE CommitWith(SiteLanguagesForm_save(DB, d),
                       FormOp("save_site_languages", d, o),
                       [default_language |-> d, other_languages |-> o])

\* a request asks for its language
GetUserLanguage(c) ==
    /\ ops < MaxSiteOps
    /\ Commit([DB EXCEPT !.ret.language = get_user_language(DB, c)],
              Op("get_user_language", None, None, c))

\* a request reaches the site root page
Serve(c) ==
    /\ ops < MaxSiteOps
    /\ Commit(serve(DB, c), Op("serve", None, None, c))

NextSite ==
    \/ \E l \in Codes : SiteCreatePage(l)
    \/ \E c \in Codes, d \in BOOLEAN, lv \in BOOLEAN : SaveLanguage(c, d, lv)
    \/ \E d \in Codes \cup {NoLang}, o \in SUBSET Codes : SaveSiteLanguages(d, o)
    \/ \E c \in Codes \cup {NoLang} : GetUserLanguage(c)
    \/ \E c \in Codes \cup {NoLang} : Serve(c)

SpecSite == InitSite /\ [][NextSite]_vars

\* ---- properties ----
TranslationsOf(db, C, L) ==
    {it.page : it \in {x \in db.items : x.canonical_page = C /\ x.language = L}}

\* C1: for every canonical page C and language L at most one page is registered
\* as the translation of C in L.
C1_AtMostOneTranslation ==
    \A C \in Pages(DB), L \in Codes :
        Cardinality({it \in items : it.canonical_page = C /\ it.language = L}) <= 1

\* a second create_translation for an existing (canonical, language) was refused
C1_Witness ==
    /\ last.op = "create_translation"
    /\ err = "Exception"
    /\ Cardinality({it \in items : it.canonical_page = last.node
                                    /\ it.language = last.lng}) = 1

\* C7: create_translation(source, L) on a source that already has a translation
\* in L raises and leaves tree and registry as they were.
C7_ConflictChangesNothing ==
    [][(/\ last'.op = "create_translation"
        /\ \E it \in items : it.canonical_page = last'.node /\ it.language = last'.lng)
       => (/\ err' = "Exception"
           /\ UNCHANGED <<parent, flang, fcanon, live, ordr, items, nextId, lang>>)]_vars

\* a conflicting call on a page that is itself translated, with room left for a page
C7_Witness ==
    /\ last.op = "create_translation"
    /\ err = "Exception"
    /\ last.tgt /= None
    /\ nextId <= MaxNodes
    /\ TranslationsOf(DB, last.node, last.lng) /= {}

\* a page entered in the registry as a canonical page of the default language
IsCanonicalDefault(db, n) ==
    \E it \in db.items : /\ it.page = n /\ it.canonical_page = None
                         /\ db.lang[it.language].is_default

AllRegistered(db) == \A n \in Pages(db) : language(db, n) /= NoLang

NonDefault(db) == {c \in Codes : db.lang[c].ex /\ ~db.lang[c].is_default}

\* every registered translation sits below the translation of its canonical
\* page's parent (below the site root when that parent is the site root)
Placed(db) ==
    \A it \in db.items :
        (it.canonical_page /= None /\ it.canonical_page \in Pages(db)) =>
            LET pc == db.parent[it.canonical_page]
            IN IF pc = ROOT THEN db.parent[it.page] = ROOT
               ELSE db.parent[it.page] \in TranslationsOf(db, pc, it.language)

\* the mirror trees are congruent: only canonical default-language pages and
\* their translations, one translation per other language, each in its place
Congruent(db) ==
    /\ AllRegistered(db)
    /\ Placed(db)
    /\ \A it \in db.items : it.canonical_page /= None => IsCanonicalDefault(db, it.canonical_page)
    /\ \A n \in Pages(db) : IsCanonicalDefault(db, n) =>
           \A c \in NonDefault(db) : Cardinality(TranslationsOf(db, n, c)) = 1

SyncedOp(db, l) ==
    \/ l.op = "create_language"
    \/ /\ l.op = "create_page"
       /\ db.lang[l.lng].is_default
       /\ (l.tgt = ROOT \/ IsCanonicalDefault(db, l.tgt))
    \/ /\ l.op = "move"
       /\ IsCanonicalDefault(db, l.node)
       /\ (l.tgt = ROOT \/ IsCanonicalDefault(db, l.tgt))

\* C2: on-create propagation, backfill and synced moves that succeed on a
\* congruent tree leave every translation below the translation of its canonical
\* page's parent.
C2_MirrorTreesStayCongruent ==
    [][(SYNC_TREE /\ Congruent(DB) /\ SyncedOp(DB, last') /\ err' = "") => Placed(DB')]_vars

\* the canonical identity of a page: its canonical page, or itself
CanonId(db, n) ==
    LET own == {it \in db.items : it.page = n /\ it.canonical_page /= None}
    IN IF own = {} THEN n ELSE (CHOOSE it \in own : TRUE).canonical_page

\* the pages of language L that stand for the move target T
Counterpart(db, T, L) ==
    IF T = ROOT THEN {ROOT}
    ELSE {n \in Pages(db) : \/ n = CanonId(db, T) /\ language(db, n) = L
                            \/ n \in TranslationsOf(db, CanonId(db, T), L)}

\* C4: a synced move of a canonical default-language page N to T on a congruent
\* tree puts every translation of N below T's counterpart in its language.
C4_MoveMovesTranslations ==
    [][(/\ SYNC_TREE /\ Congruent(DB)
        /\ last'.op = "move" /\ err' = ""
        /\ IsCanonicalDefault(DB, last'.node)
        /\ (last'.tgt = ROOT \/ CanonId(DB, last'.tgt) /= last'.node))
       => \A it \in items' : it.canonical_page = last'.node =>
              parent'[it.page] \in Counterpart(DB', last'.tgt, it.language)]_vars

\* C3: with tree-sync on, deleting a canonical page removes the page and every
\* page registered as its translation, and clears no survivor's canonical field.
C3_DeleteRemovesTranslations ==
    [][(/\ SYNC_TREE /\ last'.op = "delete"
        /\ \E it \in items : it.canonical_page = last'.node)
       => (/\ last'.node \notin Pages(DB')
           /\ \A it \in items : it.canonical_page = last'.node => it.page \notin Pages(DB')
           /\ \A n \in Pages(DB') : fcanon[n] = last'.node => fcanon'[n] = last'.node)]_vars

\* the canonical tree of the site: the first default-language page below the
\* site root and the canonical pages below it
CanonicalTree(db) ==
    LET homes == OrderedFilter(db, {n \in SeqSet(get_children(db, ROOT)) :
                                       IsCanonicalDefault(db, n)})
    IN IF homes = <<>> THEN {}
       ELSE {n \in Subtree(db, Head(homes)) : IsCanonicalDefault(db, n)}

TheTranslation(db, C, L) == CHOOSE t \in TranslationsOf(db, C, L) : TRUE

\* C5: with tree-sync on, after a Language is created every page of the
\* canonical tree has exactly one translation in it, made after its parent's.
C5_BackfillTranslatesEveryNode ==
    (SYNC_TREE /\ last.op = "create_language" /\ AllRegistered(DB)) =>
        \A n \in CanonicalTree(DB) :
            /\ Cardinality(TranslationsOf(DB, n, last.lng)) = 1
            /\ parent[n] /= ROOT =>
                   /\ TranslationsOf(DB, parent[n], last.lng) /= {}
                   /\ TheTranslation(DB, parent[n], last.lng) < TheTranslation(DB, n, last.lng)

\* C6: with tree-sync on, a page created in the default language gets a
\* translation in exactly the live non-default languages.
C6_PropagatesToLiveLanguagesOnly ==
    (SYNC_TREE /\ last.op = "create_page" /\ lang[last.lng].is_default) =>
        \A c \in Codes :
            (TranslationsOf(DB, last.node, c) /= {})
                <=> (lang[c].ex /\ lang[c].live /\ ~lang[c].is_default)

\* C8: has_translation(C, L) follows the life of the translation: once the
\* translation page is deleted, has_translation(C, L) is false again.
C8_DeletedTranslationIsForgotten ==
    [][last'.op = "delete" =>
          \A it \in items : (it.page = last'.node /\ it.canonical_page /= None) =>
              ~has_translation(DB', it.canonical_page, it.language)]_vars

\* C9: translation groups have depth 2: the canonical page of a registered
\* translation is not itself registered as a translation.
C9_NoChainedTranslations ==
    \A it \in items, jt \in items :
        (it.canonical_page /= None /\ jt.page = it.canonical_page) => jt.canonical_page = None

\* C10: a synced move of a canonical page that raises leaves every page where
\* it was.
C10_FailedMoveMovesNothing ==
    [][(/\ SYNC_TREE /\ last'.op = "move" /\ err' /= ""
        /\ IsCanonicalDefault(DB, last'.node))
       => parent' = parent]_vars

\* C11: when a synced move of a canonical default-language page N meets a
\* translation of N whose language has no page standing for the move target,
\* the move ends in an error and that translation stays where it was.
C11_MissingCounterpartFails ==
    [][(/\ SYNC_TREE /\ last'.op = "move"
        /\ IsCanonicalDefault(DB, last'.node))
       => \A it \in items :
              (/\ it.canonical_page = last'.node
               /\ Counterpart(DB, last'.tgt, it.language) = {})
              => (err' /= "" /\ parent'[it.page] = parent[it.page])]_vars

\* the live children of the site root registered for language L
LiveRootChildren(db, L) ==
    {n \in SeqSet(get_children(db, ROOT)) :
        db.live[n] /\ \E it \in db.items : it.page = n /\ it.language = L}

\* C12: serve redirects to the live child of the site root registered for the
\* resolved language and ends in Http404 when there is no such child.
C12_ServeRedirectsOrNotFound ==
    last.op = "serve" =>
        LET cands == LiveRootChildren(DB, get_user_language(DB, last.lng))
        IN /\ Cardinality(cands) = 1 => (err = "" /\ ret.page \in cands)
           /\ cands = {} => err = "Http404"

\* C13: a SiteLanguages form whose default_language is among its
\* other_languages is rejected with a validation error and nothing is saved, so
\* no saved configuration has its default_language among its other_languages.
C13_DefaultNeverInOthers ==
    /\ [](site_languages.default_language \notin site_languages.other_languages)
    /\ [][(last'.op = "save_site_languages" /\ last'.lng \in last'.checked)
          => (err' = "ValidationError" /\ UNCHANGED <<site_languages, lang, items>>)]_vars

\* the default language was changed to one of the saved other_languages and
\* the form was rejected
C13_Witness ==
    /\ last.op = "save_site_languages"
    /\ err = "ValidationError"
    /\ last.lng \in last.checked
    /\ site_languages.default_language \notin {NoLang, last.lng}
    /\ last.lng \in site_languages.other_languages

Defaults(db) == {c \in Codes : db.lang[c].ex /\ db.lang[c].is_default}

TranslationPages(db, N) ==
    {it.page : it \in {x \in db.items : x.canonical_page = N}}
        \cup SeqSet(get_translations(db, N, FALSE, FALSE))

\* C15: repeating a synced move(N, T) of a canonical default-language page
\* that succeeded succeeds again and leaves N and every translation of N
\* below the parents the first move gave them.
C15_RepeatedMoveChangesNothing ==
    [][(/\ SYNC_TREE /\ again' /\ last'.op = "move"
        /\ IsCanonicalDefault(DB, last'.node))
       => (/\ err' = ""
           /\ parent'[last'.node] = parent[last'.node]
           /\ \A t \in TranslationPages(DB, last'.node) : parent'[t] = parent[t])]_vars

\* the repeated move took a translation along, below a page other than the root
C15_Witness ==
    /\ SYNC_TREE /\ again /\ last.op = "move" /\ err = ""
    /\ IsCanonicalDefault(DB, last.node)
    /\ Len(moved) >= 2
    /\ \E t \in TranslationPages(DB, last.node) : t \in SeqSet(moved) /\ parent[t] /= ROOT

\* C16: with SYNC_TREE off the handlers do nothing: a created page is the only
\* new page and gets no translation, a move moves only the moved page, a delete
\* removes only pages of the deleted subtree, a new Language adds no page.
C16_NoSyncNoPropagation ==
    [][~SYNC_TREE =>
        /\ last'.op \in {"create_page", "create_unregistered"} =>
              /\ DOMAIN parent' = DOMAIN parent \cup {last'.node}
              /\ \A it \in items' \ items : it.page = last'.node /\ it.canonical_page = None
              /\ \A n \in DOMAIN parent : parent'[n] = parent[n]
        /\ last'.op \in {"move", "move_suppressed"} =>
              /\ DOMAIN parent' = DOMAIN parent /\ items' = items
              /\ \A n \in DOMAIN parent \ {last'.node} : parent'[n] = parent[n]
        /\ last'.op = "delete" =>
              /\ DOMAIN parent \ DOMAIN parent' \subseteq Subtree(DB, last'.node)
              /\ \A n \in DOMAIN parent' : parent'[n] = parent[n]
        /\ last'.op = "create_language" =>
              /\ DOMAIN parent' = DOMAIN parent /\ items' = items /\ parent' = parent]_vars

\* with SYNC_TREE off a canonical default-language page that has a translation
\* was moved, while another language is there to translate into
C16_Witness ==
    /\ ~SYNC_TREE
    /\ last.op = "move" /\ err = ""
    /\ IsCanonicalDefault(DB, last.node)
    /\ \E it \in items : it.canonical_page = last.node
    /\ NonDefault(DB) /= {}

\* C17: get_user_language returns the Language of the request's LANGUAGE_CODE
\* when that code names a live Language, and the default language of the
\* request's site otherwise (no code, unknown code, Language not live).
C17_ResolvesCodeOrDefault ==
    last.op = "get_user_language" =>
        IF last.lng /= NoLang /\ lang[last.lng].ex /\ lang[last.lng].live
        THEN ret.language = last.lng
        ELSE ret.language = default_for_site(DB)

\* a request named a Language that is not live and another one is the default
C17_Witness ==
    /\ last.op = "get_user_language"
    /\ last.lng /= NoLang
    /\ lang[last.lng].ex /\ ~lang[last.lng].live
    /\ ret.language /= last.lng /\ ret.language /= NoLang

Count(sq, x) == Cardinality({i \in DOMAIN sq : sq[i] = x})

\* C18: a synced move of a canonical default-language page N that succeeds on a
\* congruent tree moves N once and every translation of N once, and nothing
\* else.
C18_EachTranslationMovedOnce ==
    [][(/\ SYNC_TREE /\ Congruent(DB)
        /\ last'.op = "move" /\ err' = ""
        /\ IsCanonicalDefault(DB, last'.node)
        /\ (last'.tgt = ROOT \/ CanonId(DB, last'.tgt) /= last'.node))
       => (/\ Count(moved', last'.node) = 1
           /\ \A t \in TranslationPages(DB, last'.node) : Count(moved', t) = 1
           /\ Len(moved') = 1 + Cardinality(TranslationPages(DB, last'.node)))]_vars

\* the language of a page is the default language of the site
IsDefaultLanguage(db, n) ==
    IF LANGUAGES_PER_SITE THEN site_languages.default_language = language(db, n)
    ELSE language(db, n) /= NoLang /\ db.lang[language(db, n)].is_default

position(c) == CHOOSE i \in DOMAIN LangCodes : LangCodes[i] = c

\* C20: get_translations returns the pages of the group ordered by the
\* position of their language.
C20_OrderedByLanguagePosition ==
    \A n \in Pages(DB), only_live \in BOOLEAN, include_self \in BOOLEAN :
        LET r == get_translations(DB, n, only_live, include_self)
        IN \A i \in DOMAIN r, j \in DOMAIN r :
               i < j => position(flang[r[i]]) <= position(flang[r[j]])

\* C21: has_translation(C, L) holds exactly when get_translations(C,
\* only_live=False, include_self=False) returns a page of language L.
C21_RegistryAgreesWithFields ==
    \A C \in Pages(DB), L \in Existing :
        has_translation(DB, C, L)
            <=> \E n \in SeqSet(get_translations(DB, C, FALSE, FALSE)) : language(DB, n) = L

====
